---- MODULE Spec2Model ----
(***************************************************************************)
(* Model of zynlibs/zynmidicontroller/zynmidicontroller.cpp: the MIDI      *)
(* controller translator (connection detector, protocol decode/encode,     *)
(* outbound queue guarded by the g_bMutex flag, realtime dispatch cycle).  *)
(*                                                                         *)
(* Every thread runs a small program held in todo[t]: a sequence of items, *)
(* each one statement (or call) of the source.  A thread executes the item *)
(* at the head of its program when it is not inside an enqueue or a drain  *)
(* (pc[t] = "idle").  Reads and writes of word-sized globals are atomic    *)
(* steps; the flag g_bMutex is tested and set in two separate steps, as    *)
(* in the source.                                                          *)
(***************************************************************************)
EXTENDS Integers, Sequences, FiniteSets, TLC

\* ---------------------------------------------------------------- bounds
MaxNotifs == 3      \* topology notifications processed in one run
MaxCycles == 2      \* dispatch cycles in one run
MaxCalls == 2       \* calls made by the non-realtime producer threads in one run

\* ------------------------------------------------------ program constants
\* (unsigned int) -1, the value of an unset protocol; it is only ever compared
\* for equality, or by "<" against numbers below 2^31 where it counts as larger.
Unset == -1
g_nSupportedQuant == 2
DEVICE_LAUNCHKEY_MINI_MK3 == 0
DEVICE_LAUNCHPAD_MINI_MK3 == 1
g_nDrumColour == 79
g_nDrumOnColour == 90
g_nStartingColour == 123
g_nStoppingColour == 120

g_nDrumPads ==
    <<40,41,42,43,44,45,46,47,48,49,50,51,36,37,38,39,40,41,42,43,44,45,46,47>>
g_nLKM3SessionPads ==
    <<96,97,98,99,100,101,102,103,112,113,114,115,116,117,118,119>>
g_nLPM3SessionPads ==
    <<81,82,83,84,85,86,87,88,
      71,72,73,74,75,76,77,78,
      61,62,63,64,65,66,67,68,
      51,52,53,54,55,56,57,58,
      41,42,43,44,45,46,47,48,
      31,32,33,34,35,36,37,38,
      21,22,23,24,25,26,27,28,
      11,12,13,14,15,16,17,18>>
g_nPadColours == <<67,35,9,47,105,63,94,126,40,81,8,45,28,95,104,44>>

\* Sequence states of constants.h, kept symbolic.
SeqStates == {"STOPPED", "STARTING", "RESTARTING", "PLAYING", "STOPPING", "DISABLED"}

\* ---------------------------------------------------------------- threads
RT == "rt"          \* JACK process thread: onJackProcess
CD == "cd"          \* JACK notification thread: onJackConnect
OSC == "osc"        \* OSC server thread: onOscStatus
API == "api"        \* a caller of the library's functions
Threads == {RT, CD, OSC, API}
NonRT == Threads \ {RT}

VARIABLES
    g_nInputProtocol, g_nOutputProtocol, g_nProtocol,
    g_bShift, g_nCCoffset, g_nMidiChannel, g_nPadColour,
    g_vSendQueue, g_bMutex,
    pc, todo, pMsg,
    hostBuf, devBuf, hostCap, devCap,
    oscSubscribed, oscRegs, oscUnregs, oscPub,
    accepted, delivered, drainStart, actLog, noteStart, lastShiftCC,
    nNotifs, nCycles, nCalls,
    nIndex, lastName, named, cursorSet,
    pubLog,
    g_nPlayState

progVars == <<g_nInputProtocol, g_nOutputProtocol, g_nProtocol,
              g_bShift, g_nCCoffset, g_nMidiChannel, g_nPadColour,
              g_vSendQueue, g_bMutex>>
connVars == <<g_nInputProtocol, g_nOutputProtocol, g_nProtocol>>
modVars == <<g_bShift, g_nCCoffset, g_nMidiChannel>>
bufVars == <<hostBuf, devBuf, hostCap, devCap>>
oscVars == <<oscSubscribed, oscRegs, oscUnregs, oscPub>>
histVars == <<accepted, delivered, drainStart, actLog, noteStart, lastShiftCC>>
curVars == <<nIndex, lastName, named, cursorSet>>
cntVars == <<nNotifs, nCycles, nCalls>>
vars == <<progVars, pc, todo, pMsg, bufVars, oscVars, histVars, cntVars, curVars, pubLog,
          g_nPlayState>>

\* ----------------------------------------------------------------- helpers
Item(k, a) == [k |-> k, a |-> a]
NoMsg == [src |-> "none", n |-> 0, data |-> <<>>]

Byte(x) == x % 256                          \* conversion to uint8_t / unsigned char

RECURSIVE BytesUsed(_)
BytesUsed(buf) == IF buf = <<>> THEN 0 ELSE Len(Head(buf).data) + BytesUsed(Tail(buf))

\* jack_midi_event_reserve(buffer, 0, n): a region of n bytes, or NULL when the
\* period's buffer cannot hold it.
Reserve(buf, cap, n) == BytesUsed(buf) + n <= cap

IsPrefix(s, t) == Len(s) <= Len(t) /\ SubSeq(t, 1, Len(s)) = s

HasNext(t) == pc[t] = "idle" /\ todo[t] # <<>>
NextIs(t, k) == HasNext(t) /\ Head(todo[t]).k = k
Arg(t) == Head(todo[t]).a

\* A thread is inside the section the flag is meant to guard: between its
\* "g_bMutex = true" and its "g_bMutex = false".
InCS(t) == pc[t] \in {"push", "unlock", "loop", "dunlock"}

\* ------------------------------------------------- message envelope checks
\* sendDeviceMidi: "if(size < 1 || data[0] < 128) return;"
SendDeviceMidiAccepts(data) == ~(Len(data) < 1 \/ data[1] < 128)

\* sendDeviceMidi3: "if(status < 128 || value1 > 127 && value2 > 127) return;"
SendDeviceMidi3Accepts(status, value1, value2) ==
    ~(status < 128 \/ (value1 > 127 /\ value2 > 127))

\* ------------------------------------------------------------ pad encoding
\* sendPadStatusToDevice: the device note of a sequence, -1 when the function returns
PadOf(protocol, sequence) ==
    IF protocol = DEVICE_LAUNCHKEY_MINI_MK3 /\ sequence < 16
    THEN g_nLKM3SessionPads[sequence + 1]
    ELSE IF protocol = DEVICE_LAUNCHPAD_MINI_MK3 /\ sequence < 64
         THEN g_nLPM3SessionPads[sequence + 1]
         ELSE -1

\* A variant of the encode that sends the Stopped message for every state.
PadStatusCallsAlwaysStopped(pad, colour, state) == <<Item("send3", <<144, pad, colour>>)>>

\* A variant of the encode that sends the flash message before the pad colour.
PadStatusCallsFlashFirst(pad, colour, state) ==
    CASE state \in {"STARTING", "RESTARTING"} ->
            <<Item("send3", <<145, pad, g_nStartingColour>>),
              Item("send3", <<144, pad, colour>>)>>
      [] state = "STOPPING" ->
            <<Item("send3", <<145, pad, g_nStoppingColour>>),
              Item("send3", <<144, pad, colour>>)>>
      [] state = "PLAYING" -> <<Item("send3", <<146, pad, colour>>)>>
      [] state = "DISABLED" -> <<Item("send3", <<144, pad, 0>>)>>
      [] OTHER -> <<Item("send3", <<144, pad, colour>>)>>

\* sendPadStatusToDevice: the sendDeviceMidi3 calls of the switch on state
PadStatusCalls(pad, colour, state) ==
    CASE state = "STOPPED" -> <<Item("send3", <<144, pad, colour>>)>>
      [] state \in {"STARTING", "RESTARTING"} ->
            <<Item("send3", <<144, pad, colour>>),
              Item("send3", <<145, pad, g_nStartingColour>>)>>
      [] state = "PLAYING" -> <<Item("send3", <<146, pad, colour>>)>>
      [] state = "STOPPING" ->
            <<Item("send3", <<144, pad, colour>>),
              Item("send3", <<145, pad, g_nStoppingColour>>)>>
      [] state = "DISABLED" -> <<Item("send3", <<144, pad, 0>>)>>
      [] OTHER -> <<>>

SendPadStatusToDevice(protocol, sequence, state, colours) ==
    IF PadOf(protocol, sequence) = -1
    THEN <<>>
    ELSE PadStatusCalls(PadOf(protocol, sequence), colours[sequence], state)

\* ---------------------------------------------------- connection detector
\* A variant of isDeviceConnected that looks at the input side alone.
IsDeviceConnectedInputOnly(inp, outp, proto) == inp

\* isDeviceConnected: the value of g_nProtocol after the call
IsDeviceConnected(inp, outp, proto) == IF inp = outp THEN inp ELSE proto

\* enableDevice(enable): the switch on g_nProtocol
EnableCalls(protocol, enable) ==
    IF protocol = DEVICE_LAUNCHKEY_MINI_MK3
    THEN <<Item("send3", <<159, 12, IF enable THEN 127 ELSE 0>>)>>
         \o (IF ~enable
             THEN <<>>
             ELSE [pad \in 1..16 |->
                      Item("send3", <<153, g_nDrumPads[pad], g_nDrumColour>>)]
                  \o [pad \in 1..16 |-> Item("pad", <<pad - 1, "STOPPED">>)]
                  \o <<Item("knobs", <<1>>)>>)
    ELSE IF protocol = DEVICE_LAUNCHPAD_MINI_MK3
         THEN <<Item("send", <<240, 0, 32, 41, 2, 13, 0, 127, 247>>)>>
         ELSE <<>>

\* onJackConnect: the body of "if(strstr(aliases[i], g_sSupported[j]))" for one
\* alias; an alias is modelled by the set of supported tokens it contains.
TokenProgram(role, alias, connect, j) ==
    IF j \in alias
    THEN <<Item(role, <<IF connect THEN j ELSE Unset>>), Item("init", <<j>>)>>
    ELSE <<>>

\* A variant of the alias test that takes every alias for the first supported device.
AliasProgramAnyAlias(role, alias, connect) ==
    <<Item(role, <<IF connect THEN 0 ELSE Unset>>), Item("init", <<0>>)>>

AliasProgram(role, alias, connect) ==
    TokenProgram(role, alias, connect, 0) \o TokenProgram(role, alias, connect, 1)

RECURSIVE ConnectProgram(_, _, _)
ConnectProgram(role, aliases, connect) ==
    IF aliases = <<>>
    THEN <<>>
    ELSE AliasProgram(role, Head(aliases), connect)
         \o ConnectProgram(role, Tail(aliases), connect)

\* --------------------------------------------------------- protocol decode
\* What protocolHandler does with one event: nothing, a control-bus publish,
\* a message for the host output, or a device enqueue followed by a host message.
NoAction == [kind |-> "none", name |-> "", arg |-> 0, bytes |-> <<>>, dev |-> <<>>]
Publish(name, arg) == [NoAction EXCEPT !.kind = "pub", !.name = name, !.arg = arg]
ToHost(bytes) == [NoAction EXCEPT !.kind = "host", !.bytes = bytes]
PadEcho(dev, bytes) == [NoAction EXCEPT !.kind = "echo", !.dev = dev, !.bytes = bytes]
PublishIf(val, name) == IF val # 0 THEN Publish(name, 0) ELSE NoAction

\* case 0x90
NoteOnAction(note, vel) ==
    IF note > 35 /\ note < 52
    THEN PadEcho(<<153, note, g_nDrumOnColour>>, <<153, note, vel>>)
    ELSE IF note > 95 /\ note < 104
         THEN Publish("/cuia/TOGGLE_SEQUENCE", note - 96)
         ELSE IF note > 111 /\ note < 120
              THEN Publish("/cuia/TOGGLE_SEQUENCE", note - 104)
              ELSE NoAction

\* case 0x80
NoteOffAction(note, vel) ==
    IF note > 35 /\ note < 52
    THEN PadEcho(<<153, note, g_nDrumColour>>, <<137, note, vel>>)
    ELSE NoAction

\* A variant of the knob rule that forgets the shifted offset.
KnobCCNoShift(cc, shift, offset) == cc + offset

\* case 0xb0, "CC knobs": the controller number forwarded to the host
KnobCC(cc, shift, offset) == IF shift THEN cc + offset + 40 ELSE cc + offset

\* case 0xb0, the two branches of "if(g_bShift)"
CCAction(cc, val, shift, offset, channel) ==
    IF shift
    THEN CASE cc = 104 -> PublishIf(val, "/cuia/BACK_UP")
           [] cc = 105 -> PublishIf(val, "/cuia/BACK_DOWN")
           [] cc = 103 -> PublishIf(val, "/cuia/SELECT_UP")
           [] cc = 102 -> PublishIf(val, "/cuia/SELECT_DOWN")
           [] cc > 20 /\ cc < 29 ->
                ToHost(<<176 + channel, KnobCC(cc, shift, offset), val>>)
           [] cc = 115 -> PublishIf(val, "/cuia/TOGGLE_AUDIO_PLAY")
           [] cc = 117 -> PublishIf(val, "/cuia/TOGGLE_AUDIO_RECORD")
           [] OTHER -> NoAction
    ELSE CASE cc = 104 -> PublishIf(val, "/cuia/SWITCH_SELECT_SHORT")
           [] cc = 105 -> PublishIf(val, "/cuia/SWITCH_BACK_SHORT")
           [] cc > 20 /\ cc < 29 ->
                ToHost(<<176 + channel, KnobCC(cc, shift, offset), val>>)
           [] cc = 115 -> PublishIf(val, "/cuia/TOGGLE_MIDI_PLAY")
           [] cc = 117 -> PublishIf(val, "/cuia/TOGGLE_MIDI_RECORD")
           [] OTHER -> NoAction

\* case 0xb0, the modifier updates made before the branch on g_bShift
ShiftAfter(cc, val, shift) == IF cc = 108 THEN val # 0 ELSE shift
OffsetAfter(cc, val, offset) == IF cc = 9 THEN 8 * (val - 1) ELSE offset

\* protocolHandler, case 0 of the switch on g_nProtocol
LaunchkeyAction(ev, shift, offset, channel) ==
    CASE ev[1] - (ev[1] % 16) = 144 -> NoteOnAction(ev[2], ev[3])
      [] ev[1] - (ev[1] % 16) = 128 -> NoteOffAction(ev[2], ev[3])
      [] ev[1] - (ev[1] % 16) = 176 ->
            CCAction(ev[2], ev[3], ShiftAfter(ev[2], ev[3], shift),
                     OffsetAfter(ev[2], ev[3], offset), channel)
      [] OTHER -> NoAction

IsCC(ev) == Len(ev) = 3 /\ ev[1] - (ev[1] % 16) = 176

\* A variant of the early return that decodes whatever g_nProtocol holds.
DecodesAnyProtocol(ev, protocol) == Len(ev) = 3

\* protocolHandler: the early return and the switch on g_nProtocol
Decodes(ev, protocol) == Len(ev) = 3 /\ protocol = 0

ProtocolHandler(ev, protocol, shift, offset, channel) ==
    IF Decodes(ev, protocol) THEN LaunchkeyAction(ev, shift, offset, channel) ELSE NoAction

\* ------------------------------------------------------------------- Init
\* The state after the library is loaded: init() has registered the ports and
\* the callbacks, nothing is connected, and the history variables are empty.
Init ==
    /\ g_nInputProtocol = Unset
    /\ g_nOutputProtocol = Unset
    /\ g_nProtocol = Unset
    /\ g_bShift = FALSE
    /\ g_nCCoffset = 0
    /\ g_nMidiChannel = 0
    /\ g_nPadColour = [i \in 0..63 |-> 0]
    /\ g_vSendQueue = <<>>
    /\ g_bMutex = FALSE
    /\ pc = [t \in Threads |-> "idle"]
    /\ todo = [t \in Threads |-> <<>>]
    /\ pMsg = [t \in Threads |-> NoMsg]
    /\ hostBuf = <<>>
    /\ devBuf = <<>>
    /\ hostCap = 0
    /\ devCap = 0
    /\ oscSubscribed = FALSE
    /\ oscRegs = 0
    /\ oscUnregs = 0
    /\ oscPub = <<>>
    /\ accepted = [t \in Threads |-> 0]
    /\ delivered = <<>>
    /\ drainStart = <<>>
    /\ actLog = <<>>
    /\ noteStart = [proto |-> Unset, regs |-> 0, unregs |-> 0, relevant |-> FALSE]
    /\ lastShiftCC = 0
    /\ nNotifs = 0
    /\ nCycles = 0
    /\ nCalls = 0
    /\ nIndex = 0
    /\ lastName = Unset
    /\ named = <<>>
    /\ cursorSet = FALSE
    /\ pubLog = <<>>
    /\ g_nPlayState = 0

\* ------------------------------------------------ enqueue (sendDeviceMidi*)
Continue(t, items) == todo' = [todo EXCEPT ![t] = items \o Tail(todo[t])]
Goto(t, label) == pc' = [pc EXCEPT ![t] = label]

\* The validation and "new MIDI_MESSAGE" of either entry point, up to the first
\* test of the flag in "while(g_bMutex)": a thread that reads it true sleeps
\* in the loop (pc = "wait").
Construct(t, ok) ==
    /\ Continue(t, <<>>)
    /\ IF ok
       THEN /\ pMsg' = [pMsg EXCEPT ![t] =
                           [src |-> t, n |-> accepted[t] + 1, data |-> Arg(t)]]
            /\ accepted' = [accepted EXCEPT ![t] = @ + 1]
            /\ actLog' = IF t = CD THEN Append(actLog, Arg(t)) ELSE actLog
            /\ Goto(t, IF g_bMutex THEN "wait" ELSE "set")
       ELSE UNCHANGED <<pMsg, accepted, actLog, pc>>
    /\ UNCHANGED <<curVars, pubLog, g_nPlayState>>
    /\ UNCHANGED <<progVars, bufVars, oscVars, delivered, drainStart, noteStart,
                   lastShiftCC, cntVars>>

sendDeviceMidi(t) ==
    /\ NextIs(t, "send")
    /\ Construct(t, SendDeviceMidiAccepts(Arg(t)))

sendDeviceMidi3(t) ==
    /\ NextIs(t, "send3")
    /\ Construct(t, SendDeviceMidi3Accepts(Arg(t)[1], Arg(t)[2], Arg(t)[3]))

\* "while(g_bMutex) sleep": the loop is left only when the flag is read false
TestMutex(t) ==
    /\ pc[t] = "wait"
    /\ ~g_bMutex
    /\ Goto(t, "set")
    /\ UNCHANGED <<curVars, pubLog, g_nPlayState>>
    /\ UNCHANGED <<progVars, todo, pMsg, bufVars, oscVars, histVars, cntVars>>

\* "g_bMutex = true"
SetMutex(t) ==
    /\ pc[t] = "set"
    /\ g_bMutex' = TRUE
    /\ Goto(t, "push")
    /\ UNCHANGED <<curVars, pubLog, g_nPlayState>>
    /\ UNCHANGED <<connVars, modVars, g_nPadColour, g_vSendQueue, todo, pMsg,
                   bufVars, oscVars, histVars, cntVars>>

\* g_vSendQueue.push_back(pMsg).  When another thread is mutating the vector at
\* the same time (it is about to push_back too, or it is inside the drain loop)
\* the two accesses race: the element is appended, or the update is lost.
Racing(t) == \E u \in Threads \ {t} : pc[u] \in {"push", "loop"}
PushBack(q, m, racing) == IF racing THEN {Append(q, m), q} ELSE {Append(q, m)}

Push(t) ==
    /\ pc[t] = "push"
    /\ g_vSendQueue' \in PushBack(g_vSendQueue, pMsg[t], Racing(t))
    /\ Goto(t, "unlock")
    /\ UNCHANGED <<curVars, pubLog, g_nPlayState>>
    /\ UNCHANGED <<connVars, modVars, g_nPadColour, g_bMutex, todo, pMsg,
                   bufVars, oscVars, histVars, cntVars>>

\* "g_bMutex = false"
ClearMutex(t) ==
    /\ pc[t] = "unlock"
    /\ g_bMutex' = FALSE
    /\ Goto(t, "idle")
    /\ pMsg' = [pMsg EXCEPT ![t] = NoMsg]
    /\ UNCHANGED <<curVars, pubLog, g_nPlayState>>
    /\ UNCHANGED <<connVars, modVars, g_nPadColour, g_vSendQueue, todo,
                   bufVars, oscVars, histVars, cntVars>>

\* sendPadStatusToDevice(sequence, state)
sendPadStatusToDevice(t) ==
    /\ NextIs(t, "pad")
    /\ Continue(t, SendPadStatusToDevice(g_nProtocol, Arg(t)[1], Arg(t)[2], g_nPadColour))
    /\ UNCHANGED <<curVars, pubLog, g_nPlayState>>
    /\ UNCHANGED <<progVars, pc, pMsg, bufVars, oscVars, histVars, cntVars>>

\* selectKnobs(bank)
SelectKnobsOk(protocol, inp, outp, bank) ==
    protocol = 0 /\ IsDeviceConnected(inp, outp, protocol) # Unset /\ bank < 7

selectKnobs(t) ==
    /\ NextIs(t, "knobs")
    /\ g_nProtocol' = IF g_nProtocol = 0
                      THEN IsDeviceConnected(g_nInputProtocol, g_nOutputProtocol, g_nProtocol)
                      ELSE g_nProtocol
    /\ IF SelectKnobsOk(g_nProtocol, g_nInputProtocol, g_nOutputProtocol, Arg(t)[1])
       THEN /\ g_nCCoffset' = Arg(t)[1]
            /\ Continue(t, <<Item("send3", <<191, 9, Byte(Arg(t)[1])>>)>>)
       ELSE /\ g_nCCoffset' = g_nCCoffset
            /\ Continue(t, <<>>)
    /\ UNCHANGED <<curVars, pubLog, g_nPlayState>>
    /\ UNCHANGED <<g_nInputProtocol, g_nOutputProtocol, g_bShift, g_nMidiChannel,
                   g_nPadColour, g_vSendQueue, g_bMutex, pc, pMsg, bufVars, oscVars,
                   histVars, cntVars>>

\* selectPads(mode)
selectPads(t) ==
    /\ NextIs(t, "pads")
    /\ g_nProtocol' = IF g_nProtocol = 0
                      THEN IsDeviceConnected(g_nInputProtocol, g_nOutputProtocol, g_nProtocol)
                      ELSE g_nProtocol
    /\ IF g_nProtocol = 0 /\ g_nProtocol' # Unset
       THEN Continue(t, <<Item("send3", <<191, 3, Byte(Arg(t)[1])>>)>>)
       ELSE Continue(t, <<>>)
    /\ UNCHANGED <<curVars, pubLog, g_nPlayState>>
    /\ UNCHANGED <<g_nInputProtocol, g_nOutputProtocol, modVars, g_nPadColour,
                   g_vSendQueue, g_bMutex, pc, pMsg, bufVars, oscVars, histVars, cntVars>>

\* ------------------------------------------- connection detector (actions)
\* onJackConnect(port_a, port_b, connect): role says which of the translator's
\* ports the notification concerns ("setin": the device input port is the
\* destination, "setout": the device output port is the source, "other":
\* neither); aliases are those of the remote port.
Relevant(role, aliases) ==
    role # "other" /\ \E i \in DOMAIN aliases : aliases[i] # {}

onJackConnect(role, aliases, connect) ==
    /\ pc[CD] = "idle"
    /\ todo[CD] = <<>>
    /\ nNotifs < MaxNotifs
    /\ nNotifs' = nNotifs + 1
    /\ todo' = [todo EXCEPT ![CD] =
                   IF role = "other" THEN <<>> ELSE ConnectProgram(role, aliases, connect)]
    /\ noteStart' = [proto |-> g_nProtocol, regs |-> oscRegs, unregs |-> oscUnregs,
                     relevant |-> Relevant(role, aliases)]
    /\ UNCHANGED <<curVars, pubLog, g_nPlayState>>
    /\ UNCHANGED <<progVars, pc, pMsg, bufVars, oscVars, accepted, delivered,
                   drainStart, actLog, lastShiftCC, nCycles, nCalls>>

\* "g_nInputProtocol = connect?j:-1;"
SetInputProtocol ==
    /\ NextIs(CD, "setin")
    /\ g_nInputProtocol' = Arg(CD)[1]
    /\ Continue(CD, <<>>)
    /\ UNCHANGED <<curVars, pubLog, g_nPlayState>>
    /\ UNCHANGED <<g_nOutputProtocol, g_nProtocol, modVars, g_nPadColour, g_vSendQueue,
                   g_bMutex, pc, pMsg, bufVars, oscVars, histVars, cntVars>>

\* "g_nOutputProtocol = connect?j:-1;"
SetOutputProtocol ==
    /\ NextIs(CD, "setout")
    /\ g_nOutputProtocol' = Arg(CD)[1]
    /\ Continue(CD, <<>>)
    /\ UNCHANGED <<curVars, pubLog, g_nPlayState>>
    /\ UNCHANGED <<g_nInputProtocol, g_nProtocol, modVars, g_nPadColour, g_vSendQueue,
                   g_bMutex, pc, pMsg, bufVars, oscVars, histVars, cntVars>>

\* initLaunchkey(protocol): the range check and "g_nProtocol = -1;"
initLaunchkey ==
    /\ NextIs(CD, "init")
    /\ IF Arg(CD)[1] = Unset \/ Arg(CD)[1] >= g_nSupportedQuant
       THEN /\ g_nProtocol' = g_nProtocol
            /\ Continue(CD, <<>>)
       ELSE /\ g_nProtocol' = Unset
            /\ Continue(CD, <<Item("check", Arg(CD))>>)
    /\ UNCHANGED <<curVars, pubLog, g_nPlayState>>
    /\ UNCHANGED <<g_nInputProtocol, g_nOutputProtocol, modVars, g_nPadColour,
                   g_vSendQueue, g_bMutex, pc, pMsg, bufVars, oscVars, histVars, cntVars>>

\* initLaunchkey: "if(!isDeviceConnected()) return;"
initCheckConnected ==
    /\ NextIs(CD, "check")
    /\ g_nProtocol' = IsDeviceConnected(g_nInputProtocol, g_nOutputProtocol, g_nProtocol)
    /\ IF g_nProtocol' = Unset
       THEN Continue(CD, <<>>)
       ELSE Continue(CD, <<Item("setp", Arg(CD))>>)
    /\ UNCHANGED <<curVars, pubLog, g_nPlayState>>
    /\ UNCHANGED <<g_nInputProtocol, g_nOutputProtocol, modVars, g_nPadColour,
                   g_vSendQueue, g_bMutex, pc, pMsg, bufVars, oscVars, histVars, cntVars>>

\* initLaunchkey: "g_nProtocol = protocol;" and the call enableDevice(true)
initSetProtocol ==
    /\ NextIs(CD, "setp")
    /\ g_nProtocol' = Arg(CD)[1]
    /\ Continue(CD, <<Item("enable", <<1>>)>>)
    /\ UNCHANGED <<curVars, pubLog, g_nPlayState>>
    /\ UNCHANGED <<g_nInputProtocol, g_nOutputProtocol, modVars, g_nPadColour,
                   g_vSendQueue, g_bMutex, pc, pMsg, bufVars, oscVars, histVars, cntVars>>

\* enableDevice(enable): the connection check, the control-bus subscription
\* and registration, and the switch on g_nProtocol
enableDevice ==
    /\ NextIs(CD, "enable")
    /\ g_nProtocol' = IsDeviceConnected(g_nInputProtocol, g_nOutputProtocol, g_nProtocol)
    /\ IF g_nProtocol' = Unset
       THEN /\ Continue(CD, <<>>)
            /\ UNCHANGED <<oscSubscribed, oscRegs, oscUnregs, actLog>>
       ELSE /\ Continue(CD, EnableCalls(g_nProtocol', Arg(CD)[1] = 1))
            /\ oscSubscribed' = (Arg(CD)[1] = 1)
            /\ oscRegs' = IF Arg(CD)[1] = 1 THEN oscRegs + 2 ELSE oscRegs
            /\ oscUnregs' = IF Arg(CD)[1] = 1 THEN oscUnregs ELSE oscUnregs + 2
            /\ actLog' = <<>>
    /\ UNCHANGED <<curVars, pubLog, g_nPlayState>>
    /\ UNCHANGED <<g_nInputProtocol, g_nOutputProtocol, modVars, g_nPadColour,
                   g_vSendQueue, g_bMutex, pc, pMsg, bufVars, oscPub, accepted,
                   delivered, drainStart, noteStart, lastShiftCC, cntVars>>

\* ------------------------------------------------ realtime dispatch cycle
\* onJackProcess: the buffers of the period are fetched and cleared; evs are
\* the events of the input buffer, hcap and dcap the room of the two output
\* buffers of this period.
StartCycle(evs, hcap, dcap) ==
    /\ pc[RT] = "idle"
    /\ todo[RT] = <<>>
    /\ hostBuf' = <<>>
    /\ devBuf' = <<>>
    /\ hostCap' = hcap
    /\ devCap' = dcap
    /\ oscPub' = <<>>
    /\ todo' = [todo EXCEPT ![RT] =
                   [i \in 1..Len(evs) |-> Item("event", evs[i])] \o <<Item("drain", <<>>)>>]
    /\ UNCHANGED <<curVars, pubLog, g_nPlayState>>
    /\ UNCHANGED <<progVars, pc, pMsg, oscSubscribed, oscRegs, oscUnregs, histVars,
                   nNotifs, nCalls>>

\* One period of the bounded runs: the cycles are counted.
onJackProcess(evs, hcap, dcap) ==
    /\ nCycles < MaxCycles
    /\ nCycles' = nCycles + 1
    /\ StartCycle(evs, hcap, dcap)

\* One period of the unbounded runs: the cycles are not counted.
onJackProcessLive(evs, hcap, dcap) ==
    /\ StartCycle(evs, hcap, dcap)
    /\ UNCHANGED nCycles

\* A variant of the drum pad rules that forwards the note and forgets the LED
\* feedback.
HandlerCallsNoFeedback(act) ==
    CASE act.kind = "host" -> <<Item("host", act.bytes)>>
      [] act.kind = "echo" -> <<Item("host", act.bytes)>>
      [] OTHER -> <<>>

\* What protocolHandler leaves to be done after its decode: the enqueue and
\* the sendMidi call of the rule that matched.
HandlerCalls(act) ==
    CASE act.kind = "host" -> <<Item("host", act.bytes)>>
      [] act.kind = "echo" -> <<Item("send3", act.dev), Item("host", act.bytes)>>
      [] OTHER -> <<>>

\* protocolHandler(pEvent, pOutputBuffer)
protocolHandler ==
    /\ NextIs(RT, "event")
    /\ LET ev == Arg(RT)
           cc == Decodes(ev, g_nProtocol) /\ IsCC(ev)
           act == ProtocolHandler(ev, g_nProtocol, g_bShift, g_nCCoffset, g_nMidiChannel)
       IN /\ g_bShift' = IF cc THEN ShiftAfter(ev[2], ev[3], g_bShift) ELSE g_bShift
          /\ g_nCCoffset' = IF cc THEN OffsetAfter(ev[2], ev[3], g_nCCoffset)
                                  ELSE g_nCCoffset
          /\ lastShiftCC' = IF cc /\ ev[2] = 108 THEN ev[3] ELSE lastShiftCC
          /\ oscPub' = IF act.kind = "pub"
                       THEN Append(oscPub, <<act.name, act.arg>>)
                       ELSE oscPub
          /\ pubLog' = IF act.kind = "pub"
                       THEN Append(pubLog, <<act.name, act.arg>>)
                       ELSE pubLog
          /\ Continue(RT, HandlerCalls(act))
    /\ UNCHANGED <<curVars, g_nPlayState>>
    /\ UNCHANGED <<connVars, g_nMidiChannel, g_nPadColour, g_vSendQueue, g_bMutex,
                   pc, pMsg, bufVars, oscSubscribed, oscRegs, oscUnregs, accepted,
                   delivered, drainStart, actLog, noteStart, cntVars>>

\* sendMidi(pOutputBuffer, command, value1, value2)
sendMidi ==
    /\ NextIs(RT, "host")
    /\ hostBuf' = IF Reserve(hostBuf, hostCap, 3)
                  THEN Append(hostBuf, [data |-> <<Byte(Arg(RT)[1]), Byte(Arg(RT)[2]),
                                                    Byte(Arg(RT)[3])>>])
                  ELSE hostBuf
    /\ Continue(RT, <<>>)
    /\ UNCHANGED <<curVars, pubLog, g_nPlayState>>
    /\ UNCHANGED <<progVars, pc, pMsg, devBuf, hostCap, devCap, oscVars, histVars,
                   cntVars>>

\* onJackProcess: "while(g_bMutex) sleep" before the drain
DrainTestMutex ==
    /\ NextIs(RT, "drain")
    /\ ~g_bMutex
    /\ Continue(RT, <<>>)
    /\ Goto(RT, "dset")
    /\ UNCHANGED <<curVars, pubLog, g_nPlayState>>
    /\ UNCHANGED <<progVars, pMsg, bufVars, oscVars, histVars, cntVars>>

\* onJackProcess: "g_bMutex = true"
DrainSetMutex ==
    /\ pc[RT] = "dset"
    /\ g_bMutex' = TRUE
    /\ drainStart' = g_vSendQueue
    /\ Goto(RT, "loop")
    /\ UNCHANGED <<curVars, pubLog, g_nPlayState>>
    /\ UNCHANGED <<connVars, modVars, g_nPadColour, g_vSendQueue, todo, pMsg, bufVars,
                   oscVars, accepted, delivered, actLog, noteStart, lastShiftCC, cntVars>>

\* A variant of the drain loop that erases the envelope it could not reserve for.
QueueAfterBreakDrop(q) == Tail(q)

\* The drain loop leaves the queue as it is when it breaks on a failed reservation.
QueueAfterBreak(q) == q

\* A variant of the drain loop that returns from the cycle where it should
\* break out of the loop.
DrainStepBreakReturns ==
    /\ pc[RT] = "loop"
    /\ IF g_vSendQueue = <<>>
       THEN /\ Goto(RT, "dunlock")
            /\ UNCHANGED <<g_vSendQueue, devBuf, delivered>>
       ELSE IF ~Reserve(devBuf, devCap, Len(Head(g_vSendQueue).data))
            THEN /\ Goto(RT, "idle")
                 /\ UNCHANGED <<g_vSendQueue, devBuf, delivered>>
            ELSE /\ devBuf' = Append(devBuf, Head(g_vSendQueue))
                 /\ delivered' = Append(delivered, Head(g_vSendQueue))
                 /\ g_vSendQueue' = Tail(g_vSendQueue)
                 /\ UNCHANGED pc
    /\ UNCHANGED <<curVars, pubLog, g_nPlayState>>
    /\ UNCHANGED <<connVars, modVars, g_nPadColour, g_bMutex, todo, pMsg, hostBuf,
                   hostCap, devCap, oscVars, accepted, drainStart, actLog, noteStart,
                   lastShiftCC, cntVars>>

\* onJackProcess: one iteration of the drain loop
DrainStep ==
    /\ pc[RT] = "loop"
    /\ IF g_vSendQueue = <<>>
       THEN /\ Goto(RT, "dunlock")
            /\ UNCHANGED <<g_vSendQueue, devBuf, delivered>>
       ELSE IF ~Reserve(devBuf, devCap, Len(Head(g_vSendQueue).data))
            THEN /\ Goto(RT, "dunlock")
                 /\ g_vSendQueue' = QueueAfterBreak(g_vSendQueue)
                 /\ UNCHANGED <<devBuf, delivered>>
            ELSE /\ devBuf' = Append(devBuf, Head(g_vSendQueue))
                 /\ delivered' = Append(delivered, Head(g_vSendQueue))
                 /\ g_vSendQueue' = Tail(g_vSendQueue)
                 /\ UNCHANGED pc
    /\ UNCHANGED <<curVars, pubLog, g_nPlayState>>
    /\ UNCHANGED <<connVars, modVars, g_nPadColour, g_bMutex, todo, pMsg, hostBuf,
                   hostCap, devCap, oscVars, accepted, drainStart, actLog, noteStart,
                   lastShiftCC, cntVars>>

\* onJackProcess: "g_bMutex = false; return 0;"
DrainClearMutex ==
    /\ pc[RT] = "dunlock"
    /\ g_bMutex' = FALSE
    /\ Goto(RT, "idle")
    /\ UNCHANGED <<curVars, pubLog, g_nPlayState>>
    /\ UNCHANGED <<connVars, modVars, g_nPadColour, g_vSendQueue, todo, pMsg, bufVars,
                   oscVars, histVars, cntVars>>

\* ------------------------------------------------- non-realtime producers
\* A thread of the host application calls an enqueue entry point directly.
CallSendDeviceMidi3(status, value1, value2) ==
    /\ pc[API] = "idle"
    /\ todo[API] = <<>>
    /\ nCalls < MaxCalls
    /\ nCalls' = nCalls + 1
    /\ todo' = [todo EXCEPT ![API] = <<Item("send3", <<status, value1, value2>>)>>]
    /\ UNCHANGED <<curVars, pubLog, g_nPlayState>>
    /\ UNCHANGED <<progVars, pc, pMsg, bufVars, oscVars, histVars, nNotifs, nCycles>>

CallSendDeviceMidi(data) ==
    /\ pc[API] = "idle"
    /\ todo[API] = <<>>
    /\ nCalls < MaxCalls
    /\ nCalls' = nCalls + 1
    /\ todo' = [todo EXCEPT ![API] = <<Item("send", data)>>]
    /\ UNCHANGED <<curVars, pubLog, g_nPlayState>>
    /\ UNCHANGED <<progVars, pc, pMsg, bufVars, oscVars, histVars, nNotifs, nCycles>>

\* onOscStatus(pArgs, nArgs): the arguments are the integers of the message
\* (bank is not used); the handler exists while the OSC methods are registered.
onOscStatus(nArgs, sequence, state, group) ==
    /\ oscSubscribed
    /\ pc[OSC] = "idle"
    /\ todo[OSC] = <<>>
    /\ nCalls < MaxCalls
    /\ nCalls' = nCalls + 1
    /\ IF nArgs < 4 \/ Byte(sequence) > 63
       THEN UNCHANGED <<g_nPadColour, todo>>
       ELSE /\ g_nPadColour' = [g_nPadColour EXCEPT ![Byte(sequence)] =
                                   g_nPadColours[(Byte(group) % 16) + 1]]
            /\ todo' = [todo EXCEPT ![OSC] = <<Item("pad", <<Byte(sequence), state>>)>>]
    /\ UNCHANGED <<curVars, pubLog, g_nPlayState>>
    /\ UNCHANGED <<connVars, modVars, g_vSendQueue, g_bMutex, pc, pMsg, bufVars,
                   oscVars, histVars, nNotifs, nCycles>>

\* onOscSmf, the switch on nStatus: the calls of each case
SmfCalls(nStatus) ==
    CASE nStatus = 0 -> <<Item("send3", <<176, 115, 0>>), Item("send3", <<176, 117, 0>>)>>
      [] nStatus = 1 -> <<Item("send3", <<177, 115, 127>>), Item("send3", <<177, 117, 0>>)>>
      [] nStatus = 2 -> <<Item("send3", <<176, 115, 0>>), Item("send3", <<176, 117, 127>>)>>
      [] nStatus = 3 -> <<Item("send3", <<178, 115, 127>>), Item("send3", <<178, 117, 127>>)>>
      [] OTHER -> <<>>

\* onOscSmf(pArgs, nArgs): value is the integer of the message.  The function
\* stores it in g_nPlayState and then switches on nStatus, a name it neither
\* declares nor assigns: the value read there is not determined by the
\* message and is an input of the step.
onOscSmf(nArgs, value, nStatus) ==
    /\ oscSubscribed
    /\ pc[OSC] = "idle"
    /\ todo[OSC] = <<>>
    /\ nCalls < MaxCalls
    /\ nCalls' = nCalls + 1
    /\ IF nArgs # 1
       THEN UNCHANGED <<g_nPlayState, todo>>
       ELSE /\ g_nPlayState' = Byte(value)
            /\ todo' = [todo EXCEPT ![OSC] = SmfCalls(nStatus)]
    /\ UNCHANGED <<curVars, pubLog>>
    /\ UNCHANGED <<progVars, pc, pMsg, bufVars, oscVars, histVars, nNotifs, nCycles>>

\* A call of selectKnobs(bank) or selectPads(mode) by the host application.
CallSelectKnobs(bank) ==
    /\ pc[API] = "idle"
    /\ todo[API] = <<>>
    /\ nCalls < MaxCalls
    /\ nCalls' = nCalls + 1
    /\ todo' = [todo EXCEPT ![API] = <<Item("knobs", <<bank>>)>>]
    /\ UNCHANGED <<curVars, pubLog, g_nPlayState>>
    /\ UNCHANGED <<progVars, pc, pMsg, bufVars, oscVars, histVars, nNotifs, nCycles>>

CallSelectPads(mode) ==
    /\ pc[API] = "idle"
    /\ todo[API] = <<>>
    /\ nCalls < MaxCalls
    /\ nCalls' = nCalls + 1
    /\ todo' = [todo EXCEPT ![API] = <<Item("pads", <<mode>>)>>]
    /\ UNCHANGED <<curVars, pubLog, g_nPlayState>>
    /\ UNCHANGED <<progVars, pc, pMsg, bufVars, oscVars, histVars, nNotifs, nCycles>>

\* setMidiChannel(channel), called by the host application
setMidiChannel(channel) ==
    /\ nCalls < MaxCalls
    /\ nCalls' = nCalls + 1
    /\ g_nMidiChannel' = IF channel < 16 THEN channel ELSE g_nMidiChannel
    /\ UNCHANGED <<curVars, pubLog, g_nPlayState>>
    /\ UNCHANGED <<connVars, g_bShift, g_nCCoffset, g_nPadColour, g_vSendQueue, g_bMutex,
                   pc, todo, pMsg, bufVars, oscVars, histVars, nNotifs, nCycles>>

\* getSupported(reset): the position of the static cursor nIndex before the
\* test "if(nIndex >= g_nSupportedQuant)"
CursorAfter(reset, protocol, index) ==
    IF reset
    THEN IF protocol = Unset THEN 0 ELSE protocol
    ELSE IF protocol # Unset
         THEN IF index < protocol THEN protocol ELSE g_nSupportedQuant
         ELSE index

\* getSupported(reset), called by the host application: lastName is the index
\* of the name returned (Unset for NULL), named the names returned since the
\* last call with reset, cursorSet whether there has been such a call.
getSupported(reset) ==
    /\ pc[API] = "idle"
    /\ todo[API] = <<>>
    /\ nCalls < MaxCalls
    /\ nCalls' = nCalls + 1
    /\ LET at == CursorAfter(reset, g_nProtocol, nIndex)
           null == at >= g_nSupportedQuant
       IN /\ nIndex' = IF null THEN at ELSE at + 1
          /\ lastName' = IF null THEN Unset ELSE at
          /\ named' = (IF reset THEN <<>> ELSE named) \o (IF null THEN <<>> ELSE <<at>>)
          /\ cursorSet' = (reset \/ cursorSet)
    /\ UNCHANGED <<progVars, pc, todo, pMsg, bufVars, oscVars, histVars, nNotifs,
                   nCycles, pubLog, g_nPlayState>>

\* ----------------------------------------------------------- input sets
Roles == {"setin", "setout", "other"}
AliasLists == {<<>>, <<{}>>, <<{0}>>, <<{1}>>, <<{}, {0}>>}
DrumOn == <<144, 36, 100>>
QueueEventLists == {<<DrumOn>>}
QueueHostCaps == {3}
QueueDevCaps == {6, 1024}
DirectBytes == {<<144, 60, 5>>, <<144, 200, 200>>, <<127, 60, 5>>, <<144, 200, 5>>,
                <<144, 5, 200>>}
DirectData == {<<>>, <<127>>, <<240, 247>>}
OscSequences == {0}
OscStates == {"STARTING"}
DecodeEvents ==
    {<<176, 108, 127>>, <<176, 108, 0>>, <<176, 9, 0>>, <<176, 9, 3>>, <<176, 9, 127>>,
     <<176, 21, 64>>, <<176, 28, 64>>, <<176, 104, 127>>, <<176, 105, 127>>,
     <<176, 115, 127>>, <<176, 117, 127>>, <<176, 117, 0>>, <<176, 102, 127>>,
     <<176, 103, 127>>, <<144, 36, 100>>, <<144, 96, 100>>, <<144, 112, 100>>,
     <<128, 36, 0>>, <<192, 5>>}
DecodeHostCaps == {0, 3}
KnobBanks == {0, 1, 3, 6, 7, 200}
IdleEvents ==
    {<<176, 108, 127>>, <<176, 9, 3>>, <<176, 21, 64>>, <<176, 104, 127>>,
     <<144, 36, 100>>, <<144, 96, 100>>, <<128, 36, 0>>}
PadNoteLists == {<<>>, <<<<144, 96, 100>>>>, <<<<144, 112, 100>>>>}
PadSequences == {0, 8}
LiveDevCaps == {3, 1024}
EncodeSequences == {15}
StatusSequences == {0, 15, 16, 63, 64, 256, -1}
PadModes == {2}

\* ------------------------------------------------------- specifications
\* The steps of an enqueue between the entry point and the return.
Locked(t) ==
    \/ SetMutex(t)
    \/ Push(t)
    \/ ClearMutex(t)

\* The drain section of onJackProcess.
Drain ==
    \/ DrainTestMutex
    \/ DrainSetMutex
    \/ DrainStep
    \/ DrainClearMutex

\* The connection detector from start-up: topology notifications, processed
\* one at a time by the notification thread.
Next ==
    \/ \E role \in Roles, aliases \in AliasLists, connect \in BOOLEAN :
          onJackConnect(role, aliases, connect)
    \/ SetInputProtocol
    \/ SetOutputProtocol
    \/ initLaunchkey
    \/ initCheckConnected
    \/ initSetProtocol
    \/ enableDevice
    \/ sendPadStatusToDevice(CD)
    \/ selectKnobs(CD)
    \/ sendDeviceMidi(CD)
    \/ sendDeviceMidi3(CD)
    \/ Locked(CD)

Spec == Init /\ [][Next]_vars

\* The state in which the Launchkey Mini is connected on both ports, its enable
\* sequence has run (selectKnobs(1) included) and a dispatch cycle has drained
\* the queue; the history variables start empty.
InitLaunchkey ==
    /\ g_nInputProtocol = DEVICE_LAUNCHKEY_MINI_MK3
    /\ g_nOutputProtocol = DEVICE_LAUNCHKEY_MINI_MK3
    /\ g_nProtocol = DEVICE_LAUNCHKEY_MINI_MK3
    /\ g_bShift = FALSE
    /\ g_nCCoffset = 1
    /\ g_nMidiChannel = 0
    /\ g_nPadColour = [i \in 0..63 |-> 0]
    /\ g_vSendQueue = <<>>
    /\ g_bMutex = FALSE
    /\ pc = [t \in Threads |-> "idle"]
    /\ todo = [t \in Threads |-> <<>>]
    /\ pMsg = [t \in Threads |-> NoMsg]
    /\ hostBuf = <<>>
    /\ devBuf = <<>>
    /\ hostCap = 0
    /\ devCap = 0
    /\ oscSubscribed = TRUE
    /\ oscRegs = 2
    /\ oscUnregs = 0
    /\ oscPub = <<>>
    /\ accepted = [t \in Threads |-> 0]
    /\ delivered = <<>>
    /\ drainStart = <<>>
    /\ actLog = <<>>
    /\ noteStart = [proto |-> DEVICE_LAUNCHKEY_MINI_MK3, regs |-> 2, unregs |-> 0,
                    relevant |-> TRUE]
    /\ lastShiftCC = 0
    /\ nNotifs = 0
    /\ nCycles = 0
    /\ nCalls = 0
    /\ nIndex = 0
    /\ lastName = Unset
    /\ named = <<>>
    /\ cursorSet = FALSE
    /\ pubLog = <<>>
    /\ g_nPlayState = 0

\* The outbound queue while the Launchkey is in use: the dispatch cycle (whose
\* decode enqueues the drum pad feedback) and the OSC thread, interleaved.
NextQueue ==
    \/ \E evs \in QueueEventLists, hcap \in QueueHostCaps, dcap \in QueueDevCaps :
          onJackProcess(evs, hcap, dcap)
    \/ protocolHandler
    \/ sendMidi
    \/ Drain
    \/ \E sequence \in OscSequences, state \in OscStates : onOscStatus(4, sequence, state, 1)
    \/ sendPadStatusToDevice(OSC)
    \/ \E t \in {RT, OSC} : sendDeviceMidi3(t) \/ TestMutex(t) \/ Locked(t)

SpecQueue == InitLaunchkey /\ [][NextQueue]_vars

\* The enqueue entry points called directly by a thread of the host
\* application, from start-up, while dispatch cycles drain the queue.
NextEntry ==
    \/ \E b \in DirectBytes : CallSendDeviceMidi3(b[1], b[2], b[3])
    \/ \E data \in DirectData : CallSendDeviceMidi(data)
    \/ sendDeviceMidi(API)
    \/ sendDeviceMidi3(API)
    \/ TestMutex(API)
    \/ Locked(API)
    \/ \E dcap \in QueueDevCaps : onJackProcess(<<>>, 3, dcap)
    \/ Drain

SpecEntry == Init /\ [][NextEntry]_vars

\* The Launchkey in use is unplugged: disconnect notifications for the two
\* device ports arrive while dispatch cycles run.
NextUnplug ==
    \/ \E role \in {"setin", "setout"} : onJackConnect(role, <<{0}>>, FALSE)
    \/ SetInputProtocol
    \/ SetOutputProtocol
    \/ initLaunchkey
    \/ initCheckConnected
    \/ \E evs \in QueueEventLists : onJackProcess(evs, 3, 1024)
    \/ protocolHandler
    \/ sendMidi
    \/ sendDeviceMidi3(RT)
    \/ Locked(RT)
    \/ Drain

SpecUnplug == InitLaunchkey /\ [][NextUnplug]_vars

\* The decode step while the Launchkey is in use: dispatch cycles of one input
\* event each, alone.
NextDecode ==
    \/ \E ev \in DecodeEvents, hcap \in DecodeHostCaps : onJackProcess(<<ev>>, hcap, 1024)
    \/ protocolHandler
    \/ sendMidi
    \/ sendDeviceMidi3(RT)
    \/ Locked(RT)
    \/ Drain

SpecDecode == InitLaunchkey /\ [][NextDecode]_vars

\* The host application selecting knob banks and pad modes while the Launchkey
\* is in use and dispatch cycles drain the queue.
NextKnobs ==
    \/ \E bank \in KnobBanks : CallSelectKnobs(bank)
    \/ \E mode \in PadModes : CallSelectPads(mode)
    \/ selectKnobs(API)
    \/ selectPads(API)
    \/ sendDeviceMidi3(API)
    \/ TestMutex(API)
    \/ Locked(API)
    \/ \E dcap \in QueueDevCaps : onJackProcess(<<>>, 3, dcap)
    \/ Drain

SpecKnobs == InitLaunchkey /\ [][NextKnobs]_vars

\* Sequence status notifications from the control bus, with sequence numbers
\* inside and outside the pad range, while the Launchkey is in use.
NextStatus ==
    \/ \E sequence \in StatusSequences : onOscStatus(4, sequence, "STOPPED", 1)
    \/ sendPadStatusToDevice(OSC)
    \/ sendDeviceMidi3(OSC)
    \/ TestMutex(OSC)
    \/ Locked(OSC)
    \/ \E dcap \in QueueDevCaps : onJackProcess(<<>>, 3, dcap)
    \/ Drain

SpecStatus == InitLaunchkey /\ [][NextStatus]_vars

\* Dispatch cycles while no protocol is active: nothing is connected or only
\* the input port is, the host application enqueues directly, and every period
\* carries one input event.
NextIdle ==
    \/ \E connect \in BOOLEAN : onJackConnect("setin", <<{0}>>, connect)
    \/ SetInputProtocol
    \/ initLaunchkey
    \/ initCheckConnected
    \/ CallSendDeviceMidi3(144, 60, 5)
    \/ sendDeviceMidi3(API)
    \/ TestMutex(API)
    \/ Locked(API)
    \/ \E ev \in IdleEvents, dcap \in QueueDevCaps : onJackProcess(<<ev>>, 3, dcap)
    \/ protocolHandler
    \/ Drain

SpecIdle == Init /\ [][NextIdle]_vars

\* The session pads of the Launchkey in use: the pad pressed on the device
\* reaches the dispatch cycle as a note-on, the sequencer answers on the
\* control bus with the Playing state of a sequence.
NextPad ==
    \/ \E evs \in PadNoteLists, dcap \in QueueDevCaps : onJackProcess(evs, 3, dcap)
    \/ protocolHandler
    \/ Drain
    \/ \E sequence \in PadSequences : onOscStatus(4, sequence, "PLAYING", 1)
    \/ sendPadStatusToDevice(OSC)
    \/ sendDeviceMidi3(OSC)
    \/ TestMutex(OSC)
    \/ Locked(OSC)

SpecPad == InitLaunchkey /\ [][NextPad]_vars

\* Delivery in the long run: the JACK server keeps calling onJackProcess, every
\* period with room for at least one 3-byte envelope in the device buffer, and
\* the OSC thread enqueues pad states.  Scheduling is strongly fair: a thread
\* polling the flag in "while(g_bMutex) sleep" that could leave the loop again
\* and again eventually polls at a moment the flag is clear.
RTStep ==
    \/ \E dcap \in LiveDevCaps : onJackProcessLive(<<>>, 3, dcap)
    \/ Drain
OSCStep ==
    \/ sendPadStatusToDevice(OSC)
    \/ sendDeviceMidi3(OSC)
    \/ TestMutex(OSC)
    \/ Locked(OSC)
NextLive ==
    \/ RTStep
    \/ OSCStep
    \/ \E sequence \in OscSequences, state \in OscStates : onOscStatus(4, sequence, state, 1)

SpecLive == InitLaunchkey /\ [][NextLive]_vars /\ SF_vars(RTStep) /\ SF_vars(OSCStep)

\* The host application listing the supported devices while devices are
\* plugged and unplugged.
NextCursor ==
    \/ Next
    \/ \E reset \in BOOLEAN : getSupported(reset)

SpecCursor == Init /\ [][NextCursor]_vars

\* Every sequence state arriving from the control bus while the Launchkey is
\* in use.
NextEncode ==
    \/ \E sequence \in EncodeSequences, state \in SeqStates :
          onOscStatus(4, sequence, state, 1)
    \/ sendPadStatusToDevice(OSC)
    \/ sendDeviceMidi3(OSC)
    \/ TestMutex(OSC)
    \/ Locked(OSC)
    \/ onJackProcess(<<>>, 3, 1024)
    \/ Drain

SpecEncode == InitLaunchkey /\ [][NextEncode]_vars

\* Knob, shift and bank-select events from the Launchkey, one or two per
\* period, while the host application sets the MIDI channel.
MidiChannels == {0, 5, 15, 16, 200}
RemapEvents ==
    {<<176, 108, 127>>, <<176, 108, 0>>, <<176, 9, 1>>, <<176, 9, 6>>, <<176, 9, 127>>,
     <<176, 21, 64>>, <<176, 28, 0>>}
RemapLists ==
    {<<ev>> : ev \in RemapEvents} \cup {<<e1, e2>> : e1 \in RemapEvents, e2 \in RemapEvents}

NextRemap ==
    \/ \E channel \in MidiChannels : setMidiChannel(channel)
    \/ \E evs \in RemapLists, hcap \in DecodeHostCaps : onJackProcess(evs, hcap, 1024)
    \/ protocolHandler
    \/ sendMidi
    \/ Drain

SpecRemap == InitLaunchkey /\ [][NextRemap]_vars

\* Player-status notifications from the control bus while the Launchkey is in
\* use and dispatch cycles drain the queue.
SmfArgCounts == {0, 1, 2}
SmfValues == {0, 1, 2, 3, 4, 15}
SmfStatusValues == {0, 1, 2, 3, 4}

NextSmf ==
    \/ \E nArgs \in SmfArgCounts, value \in SmfValues, nStatus \in SmfStatusValues :
          onOscSmf(nArgs, value, nStatus)
    \/ sendDeviceMidi3(OSC)
    \/ TestMutex(OSC)
    \/ Locked(OSC)
    \/ onJackProcess(<<>>, 3, 1024)
    \/ Drain

SpecSmf == InitLaunchkey /\ [][NextSmf]_vars

\* The state in which the Launchpad Mini is connected on both ports, its enable
\* sequence has run (the layout message alone, no selectKnobs) and a dispatch
\* cycle has drained the queue; the history variables start empty.
InitLaunchpad ==
    /\ g_nInputProtocol = DEVICE_LAUNCHPAD_MINI_MK3
    /\ g_nOutputProtocol = DEVICE_LAUNCHPAD_MINI_MK3
    /\ g_nProtocol = DEVICE_LAUNCHPAD_MINI_MK3
    /\ g_bShift = FALSE
    /\ g_nCCoffset = 0
    /\ g_nMidiChannel = 0
    /\ g_nPadColour = [i \in 0..63 |-> 0]
    /\ g_vSendQueue = <<>>
    /\ g_bMutex = FALSE
    /\ pc = [t \in Threads |-> "idle"]
    /\ todo = [t \in Threads |-> <<>>]
    /\ pMsg = [t \in Threads |-> NoMsg]
    /\ hostBuf = <<>>
    /\ devBuf = <<>>
    /\ hostCap = 0
    /\ devCap = 0
    /\ oscSubscribed = TRUE
    /\ oscRegs = 2
    /\ oscUnregs = 0
    /\ oscPub = <<>>
    /\ accepted = [t \in Threads |-> 0]
    /\ delivered = <<>>
    /\ drainStart = <<>>
    /\ actLog = <<>>
    /\ noteStart = [proto |-> DEVICE_LAUNCHPAD_MINI_MK3, regs |-> 2, unregs |-> 0,
                    relevant |-> TRUE]
    /\ lastShiftCC = 0
    /\ nNotifs = 0
    /\ nCycles = 0
    /\ nCalls = 0
    /\ nIndex = 0
    /\ lastName = Unset
    /\ named = <<>>
    /\ cursorSet = FALSE
    /\ pubLog = <<>>
    /\ g_nPlayState = 0

\* The Launchpad Mini in use: input events of every kind the Launchkey rules
\* decode, sequence and player status from the control bus, selectKnobs and
\* selectPads from the host application.
LaunchpadEvents ==
    {<<176, 108, 127>>, <<176, 9, 3>>, <<176, 21, 64>>, <<176, 104, 127>>,
     <<144, 36, 100>>, <<144, 81, 100>>, <<128, 36, 0>>}
LaunchpadSequences == {0, 63, 64}

NextLaunchpad ==
    \/ \E ev \in LaunchpadEvents : onJackProcess(<<ev>>, 3, 1024)
    \/ protocolHandler
    \/ Drain
    \/ \E sequence \in LaunchpadSequences : onOscStatus(4, sequence, "PLAYING", 1)
    \/ sendPadStatusToDevice(OSC)
    \/ onOscSmf(1, 1, 1)
    \/ sendDeviceMidi3(OSC)
    \/ TestMutex(OSC)
    \/ Locked(OSC)
    \/ CallSelectKnobs(1)
    \/ CallSelectPads(2)
    \/ selectKnobs(API)
    \/ selectPads(API)

SpecLaunchpad == InitLaunchpad /\ [][NextLaunchpad]_vars

\* ================================================================ claims
CDIdle == pc[CD] = "idle" /\ todo[CD] = <<>>
ExpectedProtocol(inp, outp) == IF inp = outp /\ inp # Unset THEN inp ELSE Unset

\* C1: once a notification has been fully processed by onJackConnect,
\* g_nProtocol is set iff g_nInputProtocol and g_nOutputProtocol are equal and
\* not Unset, and then it is that common value; a half connection leaves no
\* protocol active.
C1_ConnectionInvariant ==
    CDIdle => g_nProtocol = ExpectedProtocol(g_nInputProtocol, g_nOutputProtocol)

\* The Launchkey was active on both ports, then the output was connected to a
\* Launchpad: a half connection after an activation.
C1_Witness ==
    /\ CDIdle
    /\ nNotifs = 3
    /\ oscSubscribed
    /\ g_nInputProtocol = DEVICE_LAUNCHKEY_MINI_MK3
    /\ g_nOutputProtocol = DEVICE_LAUNCHPAD_MINI_MK3
    /\ g_nProtocol = Unset

\* C2: at most one thread is between acquiring and releasing g_bMutex.
C2_MutualExclusion == Cardinality({t \in Threads : InCS(t)}) <= 1

\* C3: the envelopes written to the device over the drains, followed by those
\* still queued, hold every accepted envelope exactly once (none lost, none
\* duplicated), each producer's envelopes in the order it enqueued them.  An
\* accepted envelope whose producer has not yet reached its push_back is pending.
Written == delivered \o g_vSendQueue
Pending(t, k) == pc[t] \in {"wait", "set", "push"} /\ pMsg[t].n = k
C3_ExactlyOnceFIFO ==
    /\ \A i, j \in DOMAIN Written :
          i < j => /\ <<Written[i].src, Written[i].n>> # <<Written[j].src, Written[j].n>>
                   /\ (Written[i].src = Written[j].src => Written[i].n < Written[j].n)
    /\ \A t \in Threads : \A k \in 1..accepted[t] :
          \/ Pending(t, k)
          \/ \E i \in DOMAIN Written : Written[i].src = t /\ Written[i].n = k

\* C4: the drain writes a prefix of the queue it found and stops only at the
\* first envelope whose reservation fails; what it did not write stays queued,
\* in order, the first unwritten envelope at the head.
C4_PartialDrainDefers ==
    /\ pc[RT] \in {"loop", "dunlock"} => IsPrefix(drainStart, devBuf \o g_vSendQueue)
    /\ (pc[RT] = "dunlock" /\ Len(devBuf) < Len(drainStart)) =>
          ~Reserve(devBuf, devCap, Len(drainStart[Len(devBuf) + 1].data))

\* Three 3-byte envelopes were queued, the buffer had room for two of them:
\* two were written and the third is at the head of the queue.
C4_Witness ==
    /\ pc[RT] = "dunlock"
    /\ Len(drainStart) = 3
    /\ devCap = 6
    /\ devBuf = SubSeq(drainStart, 1, 2)
    /\ g_vSendQueue # <<>>
    /\ Head(g_vSendQueue) = drainStart[3]

\* C5: the realtime thread is never in a "while(g_bMutex) sleep" loop while a
\* non-realtime thread holds the flag.
RTWaits == g_bMutex /\ (pc[RT] = "wait" \/ NextIs(RT, "drain"))
C5_RealtimeNeverWaits == ~(RTWaits /\ \E u \in NonRT : InCS(u))

\* C6: whenever the realtime thread is about to read g_nProtocol in
\* protocolHandler, a set g_nProtocol equals both g_nInputProtocol and
\* g_nOutputProtocol.
C6_DispatchSeesInvariant ==
    NextIs(RT, "event") =>
        (g_nProtocol # Unset =>
            g_nInputProtocol = g_nProtocol /\ g_nOutputProtocol = g_nProtocol)

\* C7: a notification that takes g_nProtocol from Unset to a protocol has run
\* the enable sequence (subscription, two registrations, activation envelopes);
\* one that takes it from a protocol to Unset has run the disable sequence
\* (session mode off enqueued, unsubscription, two unregistrations).
C7_TransitionsRunSequences ==
    CDIdle =>
        /\ (noteStart.proto = Unset /\ g_nProtocol # Unset) =>
              oscSubscribed /\ oscRegs >= noteStart.regs + 2 /\ actLog # <<>>
        /\ (noteStart.proto # Unset /\ g_nProtocol = Unset) =>
              /\ ~oscSubscribed
              /\ oscUnregs >= noteStart.unregs + 2
              /\ actLog # <<>>
              /\ actLog[Len(actLog)] = <<159, 12, 0>>

\* C8: either entry point rejects a message iff it is empty or its first byte
\* is below 128; a rejected message changes neither the queue nor the pending
\* envelope, an accepted one becomes the envelope handed to push_back.
EntryCall(t) == (NextIs(t, "send") \/ NextIs(t, "send3")) /\ todo'[t] # todo[t]
C8_ValidationOnly ==
    [][\A t \in Threads :
          EntryCall(t) =>
             IF Len(Arg(t)) >= 1 /\ Arg(t)[1] >= 128
             THEN pMsg'[t].data = Arg(t) /\ pc'[t] \in {"wait", "set"}
             ELSE pc'[t] = "idle" /\ UNCHANGED <<g_vSendQueue, pMsg>>]_vars

\* C9: once a protocol is active, its activation has enqueued exactly one
\* Stopped envelope (0x90, pad, stored colour) for every session pad of the
\* device (16 for the Launchkey Mini, 64 for the Launchpad Mini) and, for the
\* Launchkey, an idle-colour envelope for every drum pad and one bank selection.
SessionPads(protocol) == IF protocol = DEVICE_LAUNCHKEY_MINI_MK3 THEN 16 ELSE 64
Count(log, bytes) == Cardinality({k \in DOMAIN log : log[k] = bytes})
C9_ResyncComplete ==
    (CDIdle /\ g_nProtocol # Unset) =>
        /\ \A i \in 0..(SessionPads(g_nProtocol) - 1) :
              Count(actLog, <<144, PadOf(g_nProtocol, i), g_nPadColour[i]>>) = 1
        /\ g_nProtocol = DEVICE_LAUNCHKEY_MINI_MK3 =>
              /\ \A pad \in 1..16 : Count(actLog, <<153, g_nDrumPads[pad], g_nDrumColour>>) = 1
              /\ Cardinality({k \in DOMAIN actLog :
                                 actLog[k][1] = 191 /\ actLog[k][2] = 9}) = 1

\* C10: on the Launchkey protocol the buttons CC 104, 105, 115, 117 pressed
\* with a non-zero value publish a different action name with shift held than
\* without, each knob CC 21..28 is forwarded with a different controller
\* number, and g_bShift is true exactly when the last CC 108 decoded had a
\* non-zero value.
C10_ModifierGatedDecode ==
    /\ \A cc \in {104, 105, 115, 117} : \A val \in 1..127 :
          LET plain == CCAction(cc, val, FALSE, g_nCCoffset, g_nMidiChannel)
              shifted == CCAction(cc, val, TRUE, g_nCCoffset, g_nMidiChannel)
          IN plain.kind = "pub" /\ shifted.kind = "pub" /\ plain.name # shifted.name
    /\ \A cc \in 21..28 : \A val \in {0, 64, 127} :
          LET plain == CCAction(cc, val, FALSE, g_nCCoffset, g_nMidiChannel)
              shifted == CCAction(cc, val, TRUE, g_nCCoffset, g_nMidiChannel)
          IN /\ plain.kind = "host" /\ shifted.kind = "host"
             /\ Byte(plain.bytes[2]) # Byte(shifted.bytes[2])
             /\ plain.bytes[1] = shifted.bytes[1] /\ plain.bytes[3] = shifted.bytes[3]
    /\ g_bShift = (lastShiftCC # 0)

\* Shift is held and a knob event was forwarded with the shifted controller number.
C10_Witness ==
    /\ g_bShift
    /\ lastShiftCC = 127
    /\ hostBuf # <<>>
    /\ hostBuf[1].data = <<176, Byte(21 + g_nCCoffset + 40), 64>>

\* C11: selectKnobs while the Launchkey is active rejects a bank of 7 or more,
\* leaving g_nCCoffset and the queue as they were; a bank in 0..6 sets
\* g_nCCoffset to the offset the decode of the device's own bank report (CC 9)
\* assigns for that bank and enqueues exactly one envelope (0xBF, 9, bank).
SelectKnobsStep == NextIs(API, "knobs") /\ todo'[API] # todo[API]
C11_BankSelection ==
    [][SelectKnobsStep =>
          LET bank == Arg(API)[1]
          IN IF bank >= 7
             THEN /\ g_nCCoffset' = g_nCCoffset
                  /\ todo'[API] = Tail(todo[API])
                  /\ UNCHANGED <<g_vSendQueue, pMsg>>
             ELSE /\ g_nCCoffset' = OffsetAfter(9, bank, g_nCCoffset)
                  /\ todo'[API] = <<Item("send3", <<191, 9, bank>>)>> \o Tail(todo[API])]_vars

\* C12: a sequence-status notification whose sequence index is outside 0..63,
\* or outside 0..15 while the Launchkey Mini is active, is ignored: no entry of
\* g_nPadColour changes and nothing is left to enqueue.
OutOfPadRange(sequence) ==
    \/ sequence < 0
    \/ sequence > 63
    \/ (g_nProtocol = DEVICE_LAUNCHKEY_MINI_MK3 /\ sequence > 15)
NothingToEnqueue(items) ==
    \A i \in DOMAIN items :
        /\ items[i].k = "pad"
        /\ SendPadStatusToDevice(g_nProtocol, items[i].a[1], items[i].a[2], g_nPadColour) = <<>>
C12_OutOfRangeIgnored ==
    [][\A sequence \in StatusSequences :
          (OutOfPadRange(sequence) /\ onOscStatus(4, sequence, "STOPPED", 1)) =>
              /\ g_nPadColour' = g_nPadColour
              /\ NothingToEnqueue(todo'[OSC])]_vars

\* C13: while g_nProtocol is unset a dispatch cycle decodes nothing: handling
\* an input event writes no host MIDI, publishes nothing, enqueues nothing and
\* leaves g_bShift and g_nCCoffset alone; the cycle still clears both output
\* buffers at its start and ends with the drain, which writes every queued
\* envelope the device buffer has room for.
InactiveDecodeStep ==
    g_nProtocol = Unset /\ NextIs(RT, "event") /\ todo'[RT] # todo[RT]
C13_InactiveCycleNoDecode ==
    /\ [](g_nProtocol = Unset =>
             \A i \in DOMAIN todo[RT] : todo[RT][i].k \in {"event", "drain"})
    /\ [](pc[RT] = "dunlock" /\ devCap = 1024 =>
             Len(devBuf) >= Len(drainStart) /\ IsPrefix(drainStart, devBuf \o g_vSendQueue))
    /\ [][InactiveDecodeStep =>
             /\ todo'[RT] = Tail(todo[RT])
             /\ UNCHANGED <<hostBuf, devBuf, oscPub, g_vSendQueue, pMsg, accepted,
                            g_bShift, g_nCCoffset, pc>>]_vars
    /\ [][nCycles' # nCycles =>
             /\ hostBuf' = <<>> /\ devBuf' = <<>>
             /\ todo'[RT][Len(todo'[RT])].k = "drain"]_vars

\* The input port is connected to a Launchkey, the output port is not: a cycle
\* with an input event has drained an envelope of the host application and
\* has written nothing else.
C13_Witness ==
    /\ g_nProtocol = Unset
    /\ g_nInputProtocol = DEVICE_LAUNCHKEY_MINI_MK3
    /\ pc[RT] = "dunlock"
    /\ devBuf # <<>>
    /\ hostBuf = <<>>
    /\ oscPub = <<>>
    /\ ~g_bShift
    /\ g_nCCoffset = 0

\* C14: a notification that concerns neither device-facing port, or whose
\* remote port has no alias with a supported device token, returns at once: the
\* three protocol fields, the queue and the control-bus subscription are
\* unchanged and nothing is left to run, for a connect and for a disconnect.
C14_IrrelevantNotificationNoEffect ==
    [][\A role \in Roles, aliases \in AliasLists, connect \in BOOLEAN :
          (~Relevant(role, aliases) /\ onJackConnect(role, aliases, connect)) =>
              /\ todo'[CD] = <<>>
              /\ UNCHANGED <<connVars, g_vSendQueue, g_bMutex, pc, pMsg, accepted,
                             actLog, oscVars>>]_vars

\* The Launchkey is active after two notifications and a third one, which did
\* not concern a supported device, has returned.
C14_Witness ==
    /\ CDIdle
    /\ nNotifs = 3
    /\ ~noteStart.relevant
    /\ noteStart.proto = DEVICE_LAUNCHKEY_MINI_MK3
    /\ g_nProtocol = DEVICE_LAUNCHKEY_MINI_MK3
    /\ oscSubscribed

\* C15: with the Launchkey active and the queue drained, a note-on for a session
\* pad publishes one /cuia/TOGGLE_SEQUENCE with the pad's sequence index and
\* neither enqueues nor writes host MIDI; a Playing status for a sequence is
\* encoded as the one envelope (0x92, pad note, pad colour), and the dispatch
\* cycle that finds it alone in the queue writes exactly that envelope to the
\* device buffer.
SessionNotes == {PadOf(DEVICE_LAUNCHKEY_MINI_MK3, i) : i \in 0..15}
SessionNoteStep ==
    /\ g_nProtocol = DEVICE_LAUNCHKEY_MINI_MK3
    /\ NextIs(RT, "event") /\ todo'[RT] # todo[RT]
    /\ Arg(RT)[1] = 144 /\ Arg(RT)[2] \in SessionNotes
PlayingStep ==
    /\ g_nProtocol = DEVICE_LAUNCHKEY_MINI_MK3
    /\ NextIs(OSC, "pad") /\ todo'[OSC] # todo[OSC]
    /\ Arg(OSC)[2] = "PLAYING" /\ Arg(OSC)[1] < 16
PlayingEnvelope(data) ==
    \E i \in 0..15 :
        data = <<146, PadOf(DEVICE_LAUNCHKEY_MINI_MK3, i), g_nPadColour[i]>>
C15_PadPressThenPlaying ==
    /\ [][SessionNoteStep =>
             /\ \E i \in 0..15 :
                   /\ Arg(RT)[2] = PadOf(DEVICE_LAUNCHKEY_MINI_MK3, i)
                   /\ pubLog' = Append(pubLog, <<"/cuia/TOGGLE_SEQUENCE", i>>)
             /\ todo'[RT] = Tail(todo[RT])
             /\ UNCHANGED <<hostBuf, g_vSendQueue, pMsg, accepted, pc>>]_vars
    /\ [][PlayingStep =>
             todo'[OSC] =
                <<Item("send3", <<146, PadOf(DEVICE_LAUNCHKEY_MINI_MK3, Arg(OSC)[1]),
                                  g_nPadColour[Arg(OSC)[1]]>>)>> \o Tail(todo[OSC])]_vars
    /\ []((/\ pc[RT] = "dunlock"
           /\ Len(drainStart) = 1
           /\ accepted[OSC] = Len(delivered) - Len(devBuf) + 1) =>
              /\ devBuf = drainStart
              /\ PlayingEnvelope(devBuf[1].data))

\* The pad of sequence 8 was pressed in the first period, the Playing status of
\* sequence 8 arrived, and the second period has written its envelope.
C15_Witness ==
    /\ nCycles = 2
    /\ pc[RT] = "dunlock"
    /\ pubLog = <<(<<"/cuia/TOGGLE_SEQUENCE", 8>>)>>
    /\ oscPub = <<>>
    /\ delivered = devBuf
    /\ Len(devBuf) = 1
    /\ devBuf[1].data = <<146, 112, g_nPadColours[2]>>
    /\ hostBuf = <<>>
    /\ accepted[RT] = 0

\* C16: when dispatch cycles keep being scheduled with room for one envelope,
\* every accepted envelope is eventually written to the device buffer and gone
\* from the queue, and every dispatch cycle that starts eventually returns.
EnvelopeIn(q, t, k) == \E i \in DOMAIN q : q[i].src = t /\ q[i].n = k
EnvelopeIds == 1..(2 * (MaxCalls + 1))
C16_EventualDelivery ==
    /\ \A k \in EnvelopeIds :
          (accepted[OSC] >= k) ~>
              (EnvelopeIn(delivered, OSC, k) /\ ~EnvelopeIn(g_vSendQueue, OSC, k))
    /\ (todo[RT] # <<>>) ~> (pc[RT] = "idle" /\ todo[RT] = <<>>)

\* C17: getSupported(true) returns the name of the active device, or the first
\* supported name when none is active; each following getSupported(false)
\* returns the next supported name in list order, and NULL once the list is
\* exhausted; no name is returned twice between two resets and the cursor never
\* passes the end of the list.
NoRepeat(seq) == \A i, j \in DOMAIN seq : i # j => seq[i] # seq[j]
C17_SupportedCursor ==
    /\ [][getSupported(TRUE) =>
             lastName' = (IF g_nProtocol = Unset THEN 0 ELSE g_nProtocol)]_vars
    /\ [][(cursorSet /\ getSupported(FALSE)) =>
             lastName' = (IF nIndex < g_nSupportedQuant THEN nIndex ELSE Unset)]_vars
    /\ [](cursorSet => NoRepeat(named) /\ nIndex <= g_nSupportedQuant)

\* C18: for a valid sequence index on the active protocol sendPadStatusToDevice
\* enqueues, in this order, Stopped: (0x90, pad, colour); Starting, Restarting:
\* (0x90, pad, colour), (0x91, pad, starting colour); Playing: (0x92, pad,
\* colour); Stopping: (0x90, pad, colour), (0x91, pad, stopping colour);
\* Disabled: (0x90, pad, 0): one or two envelopes, g_nPadColour untouched.
EncodeRule(pad, colour, state) ==
    IF state = "STOPPED" THEN <<(<<144, pad, colour>>)>>
    ELSE IF state = "STARTING" \/ state = "RESTARTING"
         THEN <<(<<144, pad, colour>>), (<<145, pad, 123>>)>>
    ELSE IF state = "PLAYING" THEN <<(<<146, pad, colour>>)>>
    ELSE IF state = "STOPPING"
         THEN <<(<<144, pad, colour>>), (<<145, pad, 120>>)>>
    ELSE <<(<<144, pad, 0>>)>>
Envelopes(items) == [i \in DOMAIN items |-> items[i].a]
ValidSequences(protocol) ==
    IF protocol = DEVICE_LAUNCHKEY_MINI_MK3 THEN 0..15 ELSE 0..63
PadStatusStep == NextIs(OSC, "pad") /\ todo'[OSC] # todo[OSC]
C18_EncodeRules ==
    /\ []((nCalls = 0 /\ nCycles = 0) =>
            \A protocol \in {DEVICE_LAUNCHKEY_MINI_MK3, DEVICE_LAUNCHPAD_MINI_MK3} :
            \A sequence \in ValidSequences(protocol), state \in SeqStates :
            \A colour \in {0, g_nPadColours[2], g_nPadColours[8]} :
               LET calls == SendPadStatusToDevice(protocol, sequence, state,
                                                  [i \in 0..63 |-> colour])
               IN Envelopes(calls) = EncodeRule(PadOf(protocol, sequence), colour, state))
    /\ [][(PadStatusStep /\ Arg(OSC)[1] \in ValidSequences(g_nProtocol)) =>
             /\ g_nPadColour' = g_nPadColour
             /\ Envelopes(todo'[OSC]) =
                   EncodeRule(PadOf(g_nProtocol, Arg(OSC)[1]), g_nPadColour[Arg(OSC)[1]],
                              Arg(OSC)[2])
             /\ Len(todo'[OSC]) \in {1, 2}
             /\ \A i \in DOMAIN todo'[OSC] : todo'[OSC][i].k = "send3"]_vars
    /\ [][(NextIs(OSC, "send3") /\ todo'[OSC] # todo[OSC]) =>
             pMsg'[OSC].data = Arg(OSC)]_vars

\* A Starting status of sequence 15 has been encoded and both envelopes have
\* reached the device buffer in order.
C18_Witness ==
    /\ Len(devBuf) = 2
    /\ devBuf[1].data = <<144, 119, g_nPadColours[2]>>
    /\ devBuf[2].data = <<145, 119, g_nStartingColour>>
    /\ g_nPadColour[15] = g_nPadColours[2]

\* C19: the decode of the Launchkey's bank-select message (CC 9) with a value
\* in 0..6 sets g_nCCoffset to the offset of that bank and enqueues exactly one
\* envelope (0xBF, 9, value) for the device as the next thing the handler does;
\* with a value outside 0..6 it leaves g_nCCoffset as it was.
BankSelectStep ==
    /\ NextIs(RT, "event")
    /\ Decodes(Arg(RT), g_nProtocol)
    /\ IsCC(Arg(RT))
    /\ Arg(RT)[2] = 9
    /\ todo'[RT] # todo[RT]

BankFeedback(value) == <<Item("send3", <<191, 9, value>>)>>

C19_BankSelectDecode ==
    [][BankSelectStep =>
         IF Arg(RT)[3] \in 0..6
         THEN /\ g_nCCoffset' = 8 * (Arg(RT)[3] - 1)
              /\ todo'[RT] = BankFeedback(Arg(RT)[3]) \o Tail(todo[RT])
         ELSE g_nCCoffset' = g_nCCoffset]_vars

\* C20: g_bShift and g_nCCoffset change only in a protocolHandler step that
\* decodes an input event of the active device, no other step writes them; and
\* the decode of a shift (CC 108) or bank-select (CC 9) event appends nothing to
\* the host buffer, publishes nothing and enqueues nothing.
ModifierWritten == g_bShift' # g_bShift \/ g_nCCoffset' # g_nCCoffset

ModifierEventStep ==
    /\ NextIs(RT, "event")
    /\ Decodes(Arg(RT), g_nProtocol)
    /\ IsCC(Arg(RT))
    /\ Arg(RT)[2] \in {9, 108}
    /\ todo'[RT] # todo[RT]

C20_ModifierSingleWriter ==
    /\ [][ModifierWritten => (NextIs(RT, "event") /\ Decodes(Arg(RT), g_nProtocol))]_vars
    /\ [][ModifierEventStep =>
             /\ hostBuf' = hostBuf
             /\ oscPub' = oscPub
             /\ g_vSendQueue' = g_vSendQueue
             /\ todo'[RT] = Tail(todo[RT])]_vars

\* C21: with the Launchkey active the decode of a CC event with controller c in
\* 21..28 and value v makes exactly one sendMidi call and no enqueue, and the
\* message that call writes to the host buffer is (0xB0 | g_nMidiChannel,
\* c + g_nCCoffset, v) without shift and (0xB0 | g_nMidiChannel,
\* c + g_nCCoffset + 40, v) with shift; g_nMidiChannel is the last value below
\* 16 passed to setMidiChannel, a value of 16 or more leaving it unchanged.
KnobStep ==
    /\ NextIs(RT, "event")
    /\ Decodes(Arg(RT), g_nProtocol)
    /\ IsCC(Arg(RT))
    /\ Arg(RT)[2] \in 21..28
    /\ todo'[RT] # todo[RT]

KnobMessage(c, v) ==
    <<176 + g_nMidiChannel, c + g_nCCoffset + (IF g_bShift THEN 40 ELSE 0), v>>

SendMidiStep == NextIs(RT, "host") /\ todo'[RT] # todo[RT]

C21_KnobRemap ==
    /\ [][KnobStep =>
            /\ todo'[RT] = <<Item("host", KnobMessage(Arg(RT)[2], Arg(RT)[3]))>> \o Tail(todo[RT])
            /\ g_vSendQueue' = g_vSendQueue
            /\ accepted' = accepted]_vars
    /\ [][(SendMidiStep /\ Reserve(hostBuf, hostCap, 3)) =>
            hostBuf' = Append(hostBuf, [data |-> Arg(RT)])]_vars
    /\ [][\A channel \in MidiChannels : setMidiChannel(channel) =>
            g_nMidiChannel' = IF channel < 16 THEN channel ELSE g_nMidiChannel]_vars
    /\ [][g_nMidiChannel' # g_nMidiChannel => \E channel \in MidiChannels : setMidiChannel(channel)]_vars

\* C22: a player-status notification with exactly one argument of value 0..3
\* stores the value in g_nPlayState and makes exactly two enqueue calls, CC 115
\* and then CC 117, with data 127 for the indicator whose bit of the value is
\* set (bit 0 play, bit 1 record) and 0 otherwise; with any other argument
\* count nothing changes, and with a value above 3 nothing is enqueued.
SmfRule(value) ==
    <<(<<115, IF value % 2 = 1 THEN 127 ELSE 0>>),
      (<<117, IF (value \div 2) % 2 = 1 THEN 127 ELSE 0>>)>>

Indicators(items) == [i \in DOMAIN items |-> <<items[i].a[2], items[i].a[3]>>]

C22_PlayerStatusEncode ==
    [][\A nArgs \in SmfArgCounts, value \in SmfValues, nStatus \in SmfStatusValues :
          onOscSmf(nArgs, value, nStatus) =>
             IF nArgs # 1
             THEN g_nPlayState' = g_nPlayState /\ todo' = todo /\ g_vSendQueue' = g_vSendQueue
             ELSE IF value \in 0..3
                  THEN /\ g_nPlayState' = value
                       /\ Len(todo'[OSC]) = 2
                       /\ \A i \in 1..2 : todo'[OSC][i].k = "send3"
                       /\ Indicators(todo'[OSC]) = SmfRule(value)
                  ELSE todo'[OSC] = <<>>]_vars

\* C23: g_bMutex is true only while some thread is between "g_bMutex = true"
\* and "g_bMutex = false" of an enqueue or of the drain section, so it is false
\* whenever no thread is inside an enqueue or the drain section; and a drain
\* loop left by the break on a failed reservation goes on to "g_bMutex = false"
\* before the cycle returns.
InEnqueue(t) == pc[t] \in {"wait", "set", "push", "unlock"}
InDrain == pc[RT] \in {"dset", "loop", "dunlock"}
HoldsLock(t) == pc[t] \in {"push", "unlock"} \/ (t = RT /\ pc[t] \in {"loop", "dunlock"})
DrainBreaks ==
    /\ pc[RT] = "loop"
    /\ g_vSendQueue # <<>>
    /\ ~Reserve(devBuf, devCap, Len(Head(g_vSendQueue).data))

C23_LockReleased ==
    /\ []((~InDrain /\ \A t \in Threads : ~InEnqueue(t)) => ~g_bMutex)
    /\ [](g_bMutex => \E t \in Threads : HoldsLock(t))
    /\ [][(DrainBreaks /\ pc'[RT] # pc[RT]) => pc'[RT] = "dunlock"]_vars
    /\ [][(pc[RT] # "idle" /\ pc'[RT] = "idle") => ~g_bMutex']_vars

\* A cycle has returned whose drain started with more envelopes than the device
\* buffer of the period holds, and nothing is running: the lock is free and
\* the envelopes that did not fit are still queued.
C23_Witness ==
    /\ nCycles > 0
    /\ devCap = 6
    /\ Len(drainStart) > 2
    /\ Len(devBuf) = 2
    /\ g_vSendQueue # <<>>
    /\ ~InDrain
    /\ todo[RT] = <<>>
    /\ \A t \in Threads : ~InEnqueue(t)
    /\ ~g_bMutex

\* C24: every control change the decode step forwards to the host has a
\* controller number in 0..127: for a knob c in 21..28 the number
\* c + g_nCCoffset (+ 40 with shift) passed to sendMidi is within 0..127, after
\* any bank-select event and with shift held or not, so that the byte stored in
\* the host buffer is that number.
IsHostCC(data) == Len(data) = 3 /\ data[1] \in 176..191

C24_ControllerInRange ==
    /\ [][(SendMidiStep /\ IsHostCC(Arg(RT))) => Arg(RT)[2] \in 0..127]_vars
    /\ [](\A i \in DOMAIN hostBuf : IsHostCC(hostBuf[i].data) => hostBuf[i].data[2] \in 0..127)

\* C25: enableDevice(true) runs only in a notification that started with no
\* protocol active, never again while the same protocol is already active, so
\* the registrations sent exceed the unregistrations sent by at most the two of
\* the current activation and the activation envelopes are enqueued once per
\* activation.
EnableRuns == NextIs(CD, "enable") /\ oscRegs' > oscRegs

C25_EnableOnlyOnActivation ==
    /\ [][EnableRuns => noteStart.proto = Unset]_vars
    /\ [](oscRegs - oscUnregs <= 2)

\* C26: with the Launchkey active, the decode of a note-on or note-off of a drum
\* pad (note 36..51) calls sendDeviceMidi3(0x99, note, pressed or idle colour)
\* and then sendMidi(0x99 or 0x89, note, velocity), whatever room the host
\* buffer has; the envelope is accepted and pushed onto the queue; sendMidi
\* appends the message to the host buffer of this cycle when the reservation
\* succeeds and drops it otherwise, and the host buffer changes in no other
\* way than by such an append or by the clearing at the start of a cycle.
DrumStep ==
    /\ NextIs(RT, "event")
    /\ Decodes(Arg(RT), g_nProtocol)
    /\ Arg(RT)[1] - (Arg(RT)[1] % 16) \in {128, 144}
    /\ Arg(RT)[2] \in 36..51
    /\ todo'[RT] # todo[RT]

DrumFeedback(ev) ==
    <<153, ev[2], IF ev[1] - (ev[1] % 16) = 144 THEN g_nDrumOnColour ELSE g_nDrumColour>>
DrumHost(ev) == <<IF ev[1] - (ev[1] % 16) = 144 THEN 153 ELSE 137, ev[2], ev[3]>>

C26_PassthroughNotDeferred ==
    /\ [][DrumStep =>
            todo'[RT] = <<Item("send3", DrumFeedback(Arg(RT))), Item("host", DrumHost(Arg(RT)))>>
                           \o Tail(todo[RT])]_vars
    /\ [][(NextIs(RT, "send3") /\ todo'[RT] # todo[RT]) =>
            pMsg'[RT].data = Arg(RT) /\ hostBuf' = hostBuf]_vars
    /\ [][(pc[RT] = "push" /\ pc'[RT] # "push") =>
            g_vSendQueue' = Append(g_vSendQueue, pMsg[RT])]_vars
    /\ [][(SendMidiStep /\ Arg(RT)[1] \in {137, 153}) =>
            /\ todo'[RT] = Tail(todo[RT])
            /\ hostBuf' = IF BytesUsed(hostBuf) + 3 <= hostCap
                          THEN Append(hostBuf, [data |-> Arg(RT)])
                          ELSE hostBuf]_vars
    /\ [][hostBuf' # hostBuf => (SendMidiStep \/ hostBuf' = <<>>)]_vars

\* A cycle whose host buffer had no room has decoded a drum pad note-on: the
\* feedback envelope has reached the device buffer and the host buffer is empty.
C26_Witness ==
    /\ nCycles > 0
    /\ hostCap = 0
    /\ pc[RT] = "idle"
    /\ todo[RT] = <<>>
    /\ hostBuf = <<>>
    /\ \E i \in DOMAIN devBuf : devBuf[i].data = <<153, 36, g_nDrumOnColour>>

\* C27: while the Launchpad Mini is the active protocol the decode of an input
\* event writes nothing to the host buffer, publishes nothing, enqueues nothing
\* and leaves g_bShift, g_nCCoffset and g_nMidiChannel as they were; a sequence
\* status for a sequence 0..63 is encoded for the pad of the Launchpad table;
\* and every envelope accepted for the device is either the activation message
\* or a pad envelope of a sequence status.
LaunchpadActive == g_nProtocol = DEVICE_LAUNCHPAD_MINI_MK3
LaunchpadLayout == <<240, 0, 32, 41, 2, 13, 0, 127, 247>>
LaunchpadPads == {g_nLPM3SessionPads[i] : i \in DOMAIN g_nLPM3SessionPads}
IsPadEnvelope(data) ==
    Len(data) = 3 /\ data[1] \in {144, 145, 146} /\ data[2] \in LaunchpadPads

C27_LaunchpadDecodesNothing ==
    /\ [][(LaunchpadActive /\ NextIs(RT, "event") /\ todo'[RT] # todo[RT]) =>
            /\ todo'[RT] = Tail(todo[RT])
            /\ UNCHANGED <<hostBuf, oscPub, pubLog, g_vSendQueue, accepted, pMsg, modVars>>]_vars
    /\ [][(LaunchpadActive /\ PadStatusStep /\ Arg(OSC)[1] \in 0..63) =>
            /\ todo'[OSC] # <<>>
            /\ \A i \in DOMAIN todo'[OSC] :
                  /\ todo'[OSC][i].k = "send3"
                  /\ todo'[OSC][i].a[2] = g_nLPM3SessionPads[Arg(OSC)[1] + 1]]_vars
    /\ [][\A t \in Threads :
            (LaunchpadActive /\ accepted'[t] # accepted[t]) =>
               \/ t = CD /\ pMsg'[t].data = LaunchpadLayout
               \/ t = OSC /\ IsPadEnvelope(pMsg'[t].data)]_vars
====
